---- MODULE Spec2Model ----
(***************************************************************************)
(* State-machine model of the proctoring monitor in src/src/App.js (the    *)
(* first, lighting-gated variant of the component, lines 1-375).           *)
(*                                                                         *)
(* One step of the model is one JavaScript task: an event handler, a timer *)
(* callback, or the continuation of an async function after an awaited     *)
(* call resolves, run to its next suspension point.  React state is the    *)
(* committed state seen between tasks; the interval callback and the       *)
(* capture handler read the state of the render that created them.         *)
(* Coordinates are in hundredths of the normalised frame (0.5 = 50),       *)
(* embedding distances in hundredths (0.6 = 60).  The emoji that prefix    *)
(* the user-visible messages are left out of the strings.                  *)
(***************************************************************************)
EXTENDS Integers, Sequences, FiniteSets, Bags, TLC

\* ------------------------------------------------------------------ bounds
MaxPoses == 2        \* poses returned by one pose call
MaxFaces == 2        \* faces returned by one detectAllFaces call
MaxObjects == 2      \* detections returned by one object-detector call
MaxCaptures == 2     \* capture requests in flight at once
MaxInFlight == 2     \* tick-started calls in flight at once, per collaborator

\* --------------------------------------------------------- program constants
centerX == 50
centerY == 50
tolerance == 8
MovementThreshold == 2
UnauthorizedThreshold == 60
LowLight == 50
HighLight == 200
DimLight == 70
videoWidth == 640
videoHeight == 480

Null == <<>>

notAllowedClasses ==
    {"cell phone", "tablet", "book", "remote", "backpack", "mouse", "tv",
     "keyboard", "laptop"}

\* ----------------------------------------------------------------- messages
MsgMultiplePeople == "Critical Warning: More than one person detected!"
MsgUnauthorized == "Warning: Unauthorized person detected!"
MsgNoFace == "Warning: No face detected!"
MsgHeadMovement == "Head movement detected!"
MsgNone == ""

StatusAlign == "Align your face in the center before capturing!"
StatusLowLight == "Low lighting detected! Try increasing brightness."
StatusTooBright == "Too much brightness! Move to a less illuminated area."
StatusCaptured == "Face captured successfully!"
StatusDimNoFace == "Face not detected! Try improving lighting."
StatusNotCentered == "Face not centered. Please align properly."
StatusNoFace == "Face not detected! Ensure your face is visible and clear."

\* ------------------------------------------------- what the collaborators return
\* Nose landmarks the pose model returns while the machine runs: centred, and
\* exactly 0.08 off on x.
Noses == {<<50, 50>>, <<58, 50>>}

RECURSIVE SeqsUpTo(_, _)
SeqsUpTo(S, n) ==
    IF n = 0 THEN {<<>>}
    ELSE LET shorter == SeqsUpTo(S, n - 1)
         IN  shorter \cup {Append(s, x) : s \in {t \in shorter : Len(t) = n - 1}, x \in S}

PoseResults == SeqsUpTo(Noses, MaxPoses)

\* Measured brightness: below the floor, on it, on the ceiling, above it.
Brightness == {49, 50, 200, 201}

\* Face embeddings, one-dimensional so that every distance is exact: 0.6 and
\* 0.61 away from the baseline <<0>>.
Descriptors == {<<60>>, <<61>>}

\* detectSingleFace at capture: nothing, or a detection with its descriptor and
\* landmark positions.
CaptureDetections ==
    {[descriptor |-> <<0>>, landmarks |-> <<<<320, 240>>>>]}

\* Bounding boxes whose centres are 64 and 192 pixels (0.1 and 0.3 of the
\* width) from the frame centre.
NearBox == [x |-> 334, y |-> 190, width |-> 100, height |-> 100]
FarBox == [x |-> 78, y |-> 190, width |-> 100, height |-> 100]

\* Faces seen while the machine runs: near the centre with either embedding,
\* far from it without a usable one.
Faces ==
    {[box |-> NearBox, descriptor |-> <<60>>],
     [box |-> NearBox, descriptor |-> <<61>>],
     [box |-> FarBox, descriptor |-> Null]}

FaceResults == SeqsUpTo(Faces, MaxFaces)

\* Top category of a detection: absent (categories[0] undefined) or a label.
NoCategory == "<none>"
Labels == {"person", "Cell Phone", NoCategory}

ObjectResults == SeqsUpTo(Labels, MaxObjects)

\* ------------------------------------------------------------ pure helpers
Abs(n) == IF n < 0 THEN -n ELSE n

\* String.prototype.toLowerCase on the labels the detector can return.
toLowerCase(name) ==
    CASE name = "Cell Phone" -> "cell phone"
      [] OTHER -> name

\* detection.categories[0]?.categoryName.toLowerCase(): undefined when the
\* detection has no category.
TopLabel(label) == IF label = NoCategory THEN NoCategory ELSE toLowerCase(label)

\* The filter applied to the labels as the detector spells them.
FilterCaseSensitive(labels) ==
    SelectSeq(labels, LAMBDA name : name \in notAllowedClasses)

\* detectionResult.detections.map(...).filter(notAllowedClasses.includes)
RECURSIVE FilterNotAllowed(_)
FilterNotAllowed(labels) ==
    IF labels = <<>> THEN <<>>
    ELSE LET name == TopLabel(Head(labels))
             rest == FilterNotAllowed(Tail(labels))
         IN  IF name \in notAllowedClasses THEN <<name>> \o rest ELSE rest

\* Array.prototype.join(', ')
RECURSIVE Join(_)
Join(names) ==
    IF names = <<>> THEN ""
    ELSE IF Len(names) = 1 THEN Head(names)
    ELSE Head(names) \o ", " \o Join(Tail(names))

MsgObjects(names) == Join(names) \o " detected! Please remove it."

\* The centring test of one nose landmark.
IsCentered(nose) ==
    /\ Abs(nose[1] - centerX) < tolerance
    /\ Abs(nose[2] - centerY) < tolerance

\* The iteration with the movement measured before the reference is renewed.
PoseStepDriftFromStored(acc, nose) ==
    LET centered == IsCentered(nose)
        stored == acc.reference
        before == IF stored = Null THEN nose ELSE stored
    IN  [isFaceCentered |-> centered,
         horizontalMovement |-> Abs(nose[1] - before[1]),
         verticalMovement |-> Abs(nose[2] - before[2]),
         reference |-> IF stored = Null \/ centered THEN nose ELSE stored]

\* The iteration with the reference replaced by every nose it sees.
PoseStepAlwaysStore(acc, nose) ==
    [isFaceCentered |-> IsCentered(nose),
     horizontalMovement |-> 0,
     verticalMovement |-> 0,
     reference |-> nose]

\* One iteration of result.landmarks.forEach: acc carries isFaceCentered, the
\* two movements and the stored reference (localStorage).
PoseStep(acc, nose) ==
    LET centered == IsCentered(nose)
        stored == acc.reference
        referenceNose == IF stored = Null \/ centered THEN nose ELSE stored
    IN  [isFaceCentered |-> centered,
         horizontalMovement |-> Abs(nose[1] - referenceNose[1]),
         verticalMovement |-> Abs(nose[2] - referenceNose[2]),
         reference |-> referenceNose]

RECURSIVE PoseFold(_, _)
PoseFold(acc, landmarks) ==
    IF landmarks = <<>> THEN acc
    ELSE PoseFold(PoseStep(acc, Head(landmarks)), Tail(landmarks))

\* The evaluation with the multiple-people test one too high.
PoseEvalMoreThanTwo(landmarks, stored) ==
    LET start == [isFaceCentered |-> FALSE, horizontalMovement |-> 0,
                  verticalMovement |-> 0, reference |-> stored]
        end == PoseFold(start, landmarks)
    IN  [faceDetected |-> Len(landmarks) > 0,
         multiplePeopleDetected |-> Len(landmarks) > 2,
         isFaceCentered |-> end.isFaceCentered,
         horizontalMovement |-> end.horizontalMovement,
         verticalMovement |-> end.verticalMovement,
         reference |-> end.reference]

\* The body of detectPose after the pose call resolved: the locals it ends
\* with and the reference it leaves in localStorage.
PoseEval(landmarks, stored) ==
    LET start == [isFaceCentered |-> FALSE, horizontalMovement |-> 0,
                  verticalMovement |-> 0, reference |-> stored]
        end == PoseFold(start, landmarks)
    IN  [faceDetected |-> Len(landmarks) > 0,
         multiplePeopleDetected |-> Len(landmarks) > 1,
         isFaceCentered |-> end.isFaceCentered,
         horizontalMovement |-> end.horizontalMovement,
         verticalMovement |-> end.verticalMovement,
         reference |-> end.reference]

\* Manhattan distance of a bounding box's centre from the frame centre,
\* doubled so that the halves stay integers.
CenterOffset(box) ==
    Abs(2 * box.x + box.width - videoWidth)
    + Abs(2 * box.y + box.height - videoHeight)

\* The reduction with its comparison turned round.
RECURSIVE ReduceFarthest(_, _)
ReduceFarthest(prev, rest) ==
    IF rest = <<>> THEN prev
    ELSE LET curr == Head(rest)
         IN  ReduceFarthest(
                 IF CenterOffset(curr.box) > CenterOffset(prev.box) THEN curr ELSE prev,
                 Tail(rest))

\* detections.reduce((prev, curr) => dist(curr) < dist(prev) ? curr : prev)
RECURSIVE ReduceCentered(_, _)
ReduceCentered(prev, rest) ==
    IF rest = <<>> THEN prev
    ELSE LET curr == Head(rest)
         IN  ReduceCentered(
                 IF CenterOffset(curr.box) < CenterOffset(prev.box) THEN curr ELSE prev,
                 Tail(rest))

\* centeredFace of verifyFace, for a non-empty list of detections.
CenteredFace(detections) ==
    IF Len(detections) > 1
    THEN ReduceCentered(Head(detections), Tail(detections))
    ELSE detections[1]

Isqrt(n) == CHOOSE r \in 0..n : r * r <= n /\ n < (r + 1) * (r + 1)

RECURSIVE SumSquares(_, _)
SumSquares(a, b) ==
    IF a = <<>> THEN 0
    ELSE (Head(a) - Head(b)) * (Head(a) - Head(b)) + SumSquares(Tail(a), Tail(b))

\* faceapi.euclideanDistance
euclideanDistance(a, b) == Isqrt(SumSquares(a, b))

\* -------------------------------------------------------------------- state
VARIABLES
    \* React state of App (useState)
    capturedFace,               \* Null or the baseline descriptor
    isFaceCaptured,
    faceCaptured,
    warningMessage,
    headMovementStatus,
    poseLandmarker,             \* TRUE once the instance is set
    objectDetector,             \* TRUE once the instance is set
    faceDetected,
    multiplePeopleDetected,
    horizontalMovement,
    verticalMovement,
    detectedNotAllowedObjects,
    unauthorizedPerson,
    \* collaborators and the page
    faceApiLoaded,              \* faceapi.nets.ssdMobilenetv1.params present
    videoReady,                 \* webcamRef.current set and video.readyState === 4
    mounted,                    \* the component is mounted and its interval is set
    \* localStorage
    referenceNosePosition,      \* Null or the stored nose position
    faceLandmarks,              \* Null or the stored landmark list
    \* closures and calls in flight
    intervalFace,               \* capturedFace as the interval callback's render saw it
    timer,                      \* "armed": the interval's period is running; "due": it has elapsed
    captures,                   \* bag of captureFace invocations that are suspended
    poseCalls,                  \* bag of tick-started detectPose calls awaiting the model
    verifyCalls,                \* bag of verifyFace calls awaiting detectAllFaces
    objectCalls,                \* number of detectObjects calls awaiting the detector
    \* history, written but never read by the program
    captureWrites,              \* how often setCapturedFace ran
    rejected,                   \* a capture request returned at the faceCaptured guard
    probe,                      \* what the latest tick, started with nothing in flight, has seen
    \* argument and result of a function applied on its own (unused by the machine)
    arg,
    ret

signals ==
    <<faceDetected, multiplePeopleDetected, horizontalMovement, verticalMovement,
      detectedNotAllowedObjects, unauthorizedPerson>>

baseline == <<capturedFace, isFaceCaptured, faceCaptured, faceLandmarks>>

readiness == <<poseLandmarker, objectDetector, faceApiLoaded, videoReady>>

inflight == <<captures, poseCalls, verifyCalls, objectCalls>>

history == <<captureWrites, rejected, probe>>

scratch == <<arg, ret>>

\* The interval of the effect at lines 325-339: its callback's closure and its
\* timer.
interval == <<intervalFace, timer>>

vars ==
    <<signals, baseline, readiness, inflight, history, scratch, warningMessage,
      headMovementStatus, mounted, referenceNosePosition, interval>>

\* The dependency list of the interval effect (line 339).
effectDeps ==
    <<poseLandmarker, objectDetector, isFaceCaptured, faceDetected,
      multiplePeopleDetected, horizontalMovement, verticalMovement,
      unauthorizedPerson>>

Init ==
    /\ capturedFace = Null
    /\ isFaceCaptured = FALSE
    /\ faceCaptured = FALSE
    /\ warningMessage = MsgNone
    /\ headMovementStatus = ""
    /\ poseLandmarker = FALSE
    /\ objectDetector = FALSE
    /\ faceDetected = FALSE
    /\ multiplePeopleDetected = FALSE
    /\ horizontalMovement = 0
    /\ verticalMovement = 0
    /\ detectedNotAllowedObjects = <<>>
    /\ unauthorizedPerson = FALSE
    /\ faceApiLoaded = FALSE
    /\ videoReady = FALSE
    /\ mounted = TRUE
    /\ referenceNosePosition \in {Null} \cup Noses
    /\ faceLandmarks = Null
    /\ intervalFace = Null
    /\ timer = "armed"
    /\ captures = EmptyBag
    /\ poseCalls = EmptyBag
    /\ verifyCalls = EmptyBag
    /\ objectCalls = 0
    /\ captureWrites = 0
    /\ rejected = FALSE
    /\ probe = "off"
    /\ arg = Null
    /\ ret = Null

\* ---------------------------------------------------------------- prioritizer
\* The cascade with its first two tests exchanged.
WarningUnauthorizedFirst ==
    IF unauthorizedPerson THEN MsgUnauthorized
    ELSE IF multiplePeopleDetected THEN MsgMultiplePeople
    ELSE IF ~faceDetected THEN MsgNoFace
    ELSE IF Len(detectedNotAllowedObjects) > 0 THEN MsgObjects(detectedNotAllowedObjects)
    ELSE IF horizontalMovement > MovementThreshold \/ verticalMovement > MovementThreshold
         THEN MsgHeadMovement
    ELSE MsgNone

\* getHighestPriorityWarning, reading the state of the render it closes over.
getHighestPriorityWarning ==
    IF multiplePeopleDetected THEN MsgMultiplePeople
    ELSE IF unauthorizedPerson THEN MsgUnauthorized
    ELSE IF ~faceDetected THEN MsgNoFace
    ELSE IF Len(detectedNotAllowedObjects) > 0 THEN MsgObjects(detectedNotAllowedObjects)
    ELSE IF horizontalMovement > MovementThreshold \/ verticalMovement > MovementThreshold
         THEN MsgHeadMovement
    ELSE MsgNone

\* ------------------------------------------------------------------ helpers
\* The interval effect runs again, and its callback closes over the new
\* render, when a dependency changed; detectedNotAllowedObjects is a fresh
\* array on every set, so setting it always counts as a change.  The cleanup
\* clears the old interval and the effect sets a new one, whose period starts
\* afresh.
RefreshInterval(objectsSet) ==
    IF mounted /\ (objectsSet \/ effectDeps' # effectDeps)
    THEN /\ intervalFace' = capturedFace'
         /\ timer' = "armed"
    ELSE UNCHANGED interval

NothingInFlight ==
    /\ captures = EmptyBag
    /\ poseCalls = EmptyBag
    /\ verifyCalls = EmptyBag
    /\ objectCalls = 0

Request(stage, isCentered, brightness) ==
    [stage |-> stage, isCentered |-> isCentered, brightness |-> brightness]

\* The four setters at the end of detectPose (lines 282-285) and the
\* localStorage write inside the loop (line 270).  A set on an unmounted
\* component changes nothing; localStorage is written all the same.
WritePose(r) ==
    /\ referenceNosePosition' = r.reference
    /\ IF mounted
       THEN /\ faceDetected' = r.faceDetected
            /\ multiplePeopleDetected' = r.multiplePeopleDetected
            /\ horizontalMovement' = r.horizontalMovement
            /\ verticalMovement' = r.verticalMovement
       ELSE UNCHANGED <<faceDetected, multiplePeopleDetected, horizontalMovement,
                        verticalMovement>>

\* The guard of detectPose (line 215).
PoseReady == poseLandmarker /\ videoReady

\* ------------------------------------------------------------ initialisation
\* loadFaceAPI finished loading the three networks.
LoadFaceAPI ==
    /\ ~faceApiLoaded
    /\ faceApiLoaded' = TRUE
    /\ UNCHANGED <<scratch, signals, baseline, poseLandmarker, objectDetector, videoReady,
                   inflight, history, warningMessage, headMovementStatus, mounted,
                   referenceNosePosition, interval>>

\* initializeModels: the pose landmarker is created and set first ...
InitPoseLandmarker ==
    /\ ~poseLandmarker
    /\ mounted
    /\ poseLandmarker' = TRUE
    /\ UNCHANGED <<scratch, signals, baseline, objectDetector, faceApiLoaded, videoReady,
                   inflight, history, warningMessage, headMovementStatus, mounted,
                   referenceNosePosition>>
    /\ RefreshInterval(FALSE)

\* ... then the object detector.
InitObjectDetector ==
    /\ poseLandmarker
    /\ ~objectDetector
    /\ mounted
    /\ objectDetector' = TRUE
    /\ UNCHANGED <<scratch, signals, baseline, poseLandmarker, faceApiLoaded, videoReady,
                   inflight, history, warningMessage, headMovementStatus, mounted,
                   referenceNosePosition>>
    /\ RefreshInterval(FALSE)

\* The webcam's video element reaches readyState 4.
VideoLoaded ==
    /\ mounted
    /\ ~videoReady
    /\ videoReady' = TRUE
    /\ UNCHANGED <<scratch, signals, baseline, poseLandmarker, objectDetector, faceApiLoaded,
                   inflight, history, warningMessage, headMovementStatus, mounted,
                   referenceNosePosition, interval>>

\* The component unmounts and the session ends: the effect's cleanup clears
\* the interval (line 338) and React detaches webcamRef.  Nothing else runs:
\* calls in flight stay in flight and localStorage is left as it is.
Unmount ==
    /\ mounted
    /\ mounted' = FALSE
    /\ timer' = "armed"
    /\ videoReady' = FALSE
    /\ UNCHANGED <<scratch, signals, baseline, poseLandmarker, objectDetector,
                   faceApiLoaded, inflight, history, warningMessage,
                   headMovementStatus, referenceNosePosition, intervalFace>>

\* ------------------------------------------------------------------- capture
\* captureFace without its first line.
CaptureRequestUnguarded ==
    /\ mounted
    /\ IF PoseReady
       THEN /\ BagCardinality(captures) < MaxCaptures
            /\ captures' = captures (+) SetToBag({Request("pose", FALSE, 0)})
            /\ probe' = "off"
            /\ UNCHANGED <<headMovementStatus, rejected>>
       ELSE /\ headMovementStatus' = StatusAlign
            /\ UNCHANGED <<captures, rejected, probe>>
    /\ UNCHANGED <<scratch, signals, baseline, readiness, poseCalls, verifyCalls,
                   objectCalls, captureWrites, warningMessage, mounted,
                   referenceNosePosition, interval>>

\* captureFace is called (the capture command).  With faceCaptured set it
\* returns at once.  Otherwise it calls detectPose: if the guard of detectPose
\* fails that returns undefined, which is not centred, and the request ends
\* with the alignment message; else the request is suspended on the pose call.
CaptureRequest ==
    /\ mounted
    /\ IF faceCaptured
       THEN /\ rejected' = TRUE
            /\ UNCHANGED <<captures, headMovementStatus, probe>>
       ELSE IF PoseReady
       THEN /\ BagCardinality(captures) < MaxCaptures
            /\ captures' = captures (+) SetToBag({Request("pose", FALSE, 0)})
            /\ probe' = "off"
            /\ UNCHANGED <<headMovementStatus, rejected>>
       ELSE /\ headMovementStatus' = StatusAlign
            /\ UNCHANGED <<captures, rejected, probe>>
    /\ UNCHANGED <<scratch, signals, baseline, readiness, poseCalls, verifyCalls, objectCalls,
                   captureWrites, warningMessage, mounted, referenceNosePosition,
                   interval>>

\* The pose call of a capture request resolves: detectPose evaluates the
\* landmarks, sets the signals and starts the 300 ms settle timer.
CapturePoseResolved(req, landmarks) ==
    /\ BagIn(req, captures)
    /\ req.stage = "pose"
    /\ LET r == PoseEval(landmarks, referenceNosePosition)
       IN  /\ WritePose(r)
           /\ captures' = (captures (-) SetToBag({req}))
                            (+) SetToBag({Request("settle", r.isFaceCentered, 0)})
    /\ UNCHANGED <<scratch, detectedNotAllowedObjects, unauthorizedPerson, baseline,
                   readiness, poseCalls, verifyCalls, objectCalls, history,
                   warningMessage, headMovementStatus, mounted>>
    /\ RefreshInterval(FALSE)

CapturePoseDone ==
    \E req \in BagToSet(captures), landmarks \in PoseResults :
        CapturePoseResolved(req, landmarks)

\* The continuation with the centring gate left out.
CaptureSettledNoCentering(req, brightness) ==
    /\ BagIn(req, captures)
    /\ req.stage = "settle"
    /\ LET ended == captures (-) SetToBag({req})
           say(status) ==
               headMovementStatus' = IF mounted THEN status ELSE headMovementStatus
       IN  IF ~mounted
           THEN UNCHANGED headMovementStatus /\ captures' = ended
           ELSE IF brightness < LowLight
           THEN say(StatusLowLight) /\ captures' = ended
           ELSE IF brightness > HighLight
           THEN say(StatusTooBright) /\ captures' = ended
           ELSE /\ UNCHANGED headMovementStatus
                /\ captures' =
                     IF faceApiLoaded
                     THEN ended (+) SetToBag({Request("face", req.isCentered, brightness)})
                     ELSE ended
    /\ UNCHANGED <<scratch, signals, baseline, readiness, poseCalls, verifyCalls,
                   objectCalls, history, warningMessage, mounted,
                   referenceNosePosition, interval>>

\* The continuation with the floor of the lighting band made exclusive.
CaptureSettledExclusiveFloor(req, brightness) ==
    /\ BagIn(req, captures)
    /\ req.stage = "settle"
    /\ LET ended == captures (-) SetToBag({req})
           say(status) ==
               headMovementStatus' = IF mounted THEN status ELSE headMovementStatus
       IN  IF ~req.isCentered
           THEN say(StatusAlign) /\ captures' = ended
           ELSE IF ~mounted
           THEN UNCHANGED headMovementStatus /\ captures' = ended
           ELSE IF brightness <= LowLight
           THEN say(StatusLowLight) /\ captures' = ended
           ELSE IF brightness > HighLight
           THEN say(StatusTooBright) /\ captures' = ended
           ELSE /\ UNCHANGED headMovementStatus
                /\ captures' =
                     IF faceApiLoaded
                     THEN ended (+) SetToBag({Request("face", req.isCentered, brightness)})
                     ELSE ended
    /\ UNCHANGED <<scratch, signals, baseline, readiness, poseCalls, verifyCalls,
                   objectCalls, history, warningMessage, mounted,
                   referenceNosePosition, interval>>

\* The continuation with the lighting gate left out.
CaptureSettledNoLighting(req, brightness) ==
    /\ BagIn(req, captures)
    /\ req.stage = "settle"
    /\ LET ended == captures (-) SetToBag({req})
           say(status) ==
               headMovementStatus' = IF mounted THEN status ELSE headMovementStatus
       IN  IF ~req.isCentered
           THEN say(StatusAlign) /\ captures' = ended
           ELSE IF ~mounted
           THEN UNCHANGED headMovementStatus /\ captures' = ended
           ELSE /\ UNCHANGED headMovementStatus
                /\ captures' =
                     IF faceApiLoaded
                     THEN ended (+) SetToBag({Request("face", req.isCentered, brightness)})
                     ELSE ended
    /\ UNCHANGED <<scratch, signals, baseline, readiness, poseCalls, verifyCalls,
                   objectCalls, history, warningMessage, mounted,
                   referenceNosePosition, interval>>

\* The settle timer fires and captureFace goes on (lines 69-91): the centring
\* gate, the test of webcamRef.current (null once the component is unmounted),
\* the brightness read (getBrightness resolves in the same task) and the
\* lighting gate, up to the call of detectSingleFace.  That call throws when
\* the networks are not loaded, which ends the request with nothing set.
CaptureSettledWith(req, brightness) ==
    /\ BagIn(req, captures)
    /\ req.stage = "settle"
    /\ LET ended == captures (-) SetToBag({req})
           say(status) ==
               headMovementStatus' = IF mounted THEN status ELSE headMovementStatus
       IN  IF ~req.isCentered
           THEN say(StatusAlign) /\ captures' = ended
           ELSE IF ~mounted
           THEN UNCHANGED headMovementStatus /\ captures' = ended
           ELSE IF brightness < LowLight
           THEN say(StatusLowLight) /\ captures' = ended
           ELSE IF brightness > HighLight
           THEN say(StatusTooBright) /\ captures' = ended
           ELSE /\ UNCHANGED headMovementStatus
                /\ captures' =
                     IF faceApiLoaded
                     THEN ended (+) SetToBag({Request("face", req.isCentered, brightness)})
                     ELSE ended
    /\ UNCHANGED <<scratch, signals, baseline, readiness, poseCalls, verifyCalls,
                   objectCalls, history, warningMessage, mounted,
                   referenceNosePosition, interval>>

CaptureSettled ==
    \E req \in BagToSet(captures), brightness \in Brightness :
        CaptureSettledWith(req, brightness)

\* The three setters in the order isFaceCaptured, capturedFace, faceCaptured.
CaptureRendersFlagFirst(descriptor) ==
    <<[capturedFace |-> capturedFace, isFaceCaptured |-> TRUE,
       faceCaptured |-> faceCaptured],
      [capturedFace |-> descriptor, isFaceCaptured |-> TRUE,
       faceCaptured |-> faceCaptured],
      [capturedFace |-> descriptor, isFaceCaptured |-> TRUE,
       faceCaptured |-> TRUE]>>

\* The state each of the three setters of a successful capture leaves
\* (lines 94-96), in their order: a render may show any of them, and the last
\* is what the task commits.
CaptureRenders(descriptor) ==
    <<[capturedFace |-> descriptor, isFaceCaptured |-> isFaceCaptured,
       faceCaptured |-> faceCaptured],
      [capturedFace |-> descriptor, isFaceCaptured |-> TRUE,
       faceCaptured |-> faceCaptured],
      [capturedFace |-> descriptor, isFaceCaptured |-> TRUE,
       faceCaptured |-> TRUE]>>

\* detectSingleFace resolves with a detection: the baseline is stored
\* (lines 93-101).
CaptureSucceeded ==
    \E req \in BagToSet(captures), detections \in CaptureDetections :
        /\ req.stage = "face"
        /\ captures' = captures (-) SetToBag({req})
        /\ faceLandmarks' = detections.landmarks
        /\ IF mounted
           THEN /\ LET committed == CaptureRenders(detections.descriptor)[3]
                   IN  /\ capturedFace' = committed.capturedFace
                       /\ isFaceCaptured' = committed.isFaceCaptured
                       /\ faceCaptured' = committed.faceCaptured
                /\ headMovementStatus' = StatusCaptured
                /\ captureWrites' = captureWrites + 1
           ELSE UNCHANGED <<capturedFace, isFaceCaptured, faceCaptured,
                            headMovementStatus, captureWrites>>
        /\ UNCHANGED <<scratch, signals, readiness, poseCalls, verifyCalls, objectCalls,
                       rejected, probe, warningMessage, mounted,
                       referenceNosePosition>>
        /\ RefreshInterval(FALSE)

\* detectSingleFace resolves with nothing (lines 102-111).
CaptureNoFace ==
    \E req \in BagToSet(captures) :
        /\ req.stage = "face"
        /\ captures' = captures (-) SetToBag({req})
        /\ headMovementStatus' =
             IF ~mounted THEN headMovementStatus
             ELSE IF req.brightness < DimLight THEN StatusDimNoFace
             ELSE IF ~req.isCentered THEN StatusNotCentered
             ELSE StatusNoFace
        /\ UNCHANGED <<scratch, signals, baseline, readiness, poseCalls, verifyCalls,
                       objectCalls, history, warningMessage, mounted,
                       referenceNosePosition, interval>>

\* ---------------------------------------------------------------------- tick
\* The interval callback without its test of isFaceCaptured.
TickUnguarded ==
    /\ mounted
    /\ BagCardinality(poseCalls) < MaxInFlight
    /\ BagCardinality(verifyCalls) < MaxInFlight
    /\ objectCalls < MaxInFlight
    /\ poseCalls' =
         IF PoseReady
         THEN poseCalls (+) SetToBag({[mon |-> isFaceCaptured]})
         ELSE poseCalls
    /\ verifyCalls' =
         IF intervalFace # Null /\ faceApiLoaded /\ videoReady
         THEN verifyCalls (+) SetToBag({intervalFace})
         ELSE verifyCalls
    /\ objectCalls' = IF objectDetector /\ videoReady THEN objectCalls + 1 ELSE objectCalls
    /\ warningMessage' = getHighestPriorityWarning
    /\ probe' = IF isFaceCaptured /\ NothingInFlight THEN "on" ELSE "off"
    /\ timer' = "armed"
    /\ UNCHANGED <<scratch, signals, baseline, readiness, captures, captureWrites,
                   rejected, headMovementStatus, mounted, referenceNosePosition,
                   intervalFace>>

\* The interval callback (lines 326-336).  detectPose, verifyFace and
\* detectObjects each run to their first await, or return at their guard; the
\* callback awaits none of them and sets the warning from the signals of the
\* render it closes over.
Tick ==
    /\ mounted
    /\ BagCardinality(poseCalls) < MaxInFlight
    /\ BagCardinality(verifyCalls) < MaxInFlight
    /\ objectCalls < MaxInFlight
    /\ poseCalls' =
         IF PoseReady
         THEN poseCalls (+) SetToBag({[mon |-> isFaceCaptured]})
         ELSE poseCalls
    /\ verifyCalls' =
         IF isFaceCaptured /\ intervalFace # Null /\ faceApiLoaded /\ videoReady
         THEN verifyCalls (+) SetToBag({intervalFace})
         ELSE verifyCalls
    /\ objectCalls' =
         IF isFaceCaptured /\ objectDetector /\ videoReady
         THEN objectCalls + 1
         ELSE objectCalls
    /\ warningMessage' =
         IF isFaceCaptured THEN getHighestPriorityWarning ELSE warningMessage
    /\ probe' = IF isFaceCaptured /\ NothingInFlight THEN "on" ELSE "off"
    /\ timer' = "armed"
    /\ UNCHANGED <<scratch, signals, baseline, readiness, captures, captureWrites, rejected,
                   headMovementStatus, mounted, referenceNosePosition, intervalFace>>

\* The pose call of a tick's detectPose resolves with the given landmarks.
TickPoseResolved(call, landmarks) ==
    /\ WritePose(PoseEval(landmarks, referenceNosePosition))
    /\ poseCalls' = poseCalls (-) SetToBag({call})
    /\ probe' = IF probe = "on" /\ landmarks # <<>> THEN "seen" ELSE probe
    /\ UNCHANGED <<scratch, detectedNotAllowedObjects, unauthorizedPerson, baseline, readiness,
                   captures, verifyCalls, objectCalls, captureWrites, rejected,
                   warningMessage, headMovementStatus, mounted>>
    /\ RefreshInterval(FALSE)

TickPoseDone ==
    \E call \in BagToSet(poseCalls), landmarks \in PoseResults :
        TickPoseResolved(call, landmarks)

\* The continuation of verifyFace with the threshold made inclusive.
VerifyResolvedInclusive(captured, detections) ==
    /\ verifyCalls' = verifyCalls (-) SetToBag({captured})
    /\ probe' = IF probe = "on" /\ detections # <<>> THEN "seen" ELSE probe
    /\ IF detections = <<>> \/ ~mounted
       THEN UNCHANGED <<faceDetected, unauthorizedPerson>>
       ELSE LET centeredFace == CenteredFace(detections)
            IN  IF centeredFace.descriptor = Null
                THEN /\ faceDetected' = FALSE
                     /\ UNCHANGED unauthorizedPerson
                ELSE /\ faceDetected' = TRUE
                     /\ unauthorizedPerson' =
                          (euclideanDistance(captured, centeredFace.descriptor)
                             >= UnauthorizedThreshold)
    /\ UNCHANGED <<scratch, multiplePeopleDetected, horizontalMovement, verticalMovement,
                   detectedNotAllowedObjects, baseline, readiness, captures,
                   poseCalls, objectCalls, captureWrites, rejected, warningMessage,
                   headMovementStatus, mounted, referenceNosePosition>>
    /\ RefreshInterval(FALSE)

\* detectAllFaces of a verifyFace call resolves (lines 179-207).  With no
\* detection centeredFace is undefined and reading its descriptor throws into
\* the catch, which sets nothing.
VerifyResolved(captured, detections) ==
    /\ verifyCalls' = verifyCalls (-) SetToBag({captured})
    /\ probe' = IF probe = "on" /\ detections # <<>> THEN "seen" ELSE probe
    /\ IF detections = <<>> \/ ~mounted
       THEN UNCHANGED <<faceDetected, unauthorizedPerson>>
       ELSE LET centeredFace == CenteredFace(detections)
            IN  IF centeredFace.descriptor = Null
                THEN /\ faceDetected' = FALSE
                     /\ UNCHANGED unauthorizedPerson
                ELSE /\ faceDetected' = TRUE
                     /\ unauthorizedPerson' =
                          (euclideanDistance(captured, centeredFace.descriptor)
                             > UnauthorizedThreshold)
    /\ UNCHANGED <<scratch, multiplePeopleDetected, horizontalMovement, verticalMovement,
                   detectedNotAllowedObjects, baseline, readiness, captures,
                   poseCalls, objectCalls, captureWrites, rejected, warningMessage,
                   headMovementStatus, mounted, referenceNosePosition>>
    /\ RefreshInterval(FALSE)

VerifyDone ==
    \E captured \in BagToSet(verifyCalls), detections \in FaceResults :
        VerifyResolved(captured, detections)

\* detectAllFaces rejects: the catch logs the error and sets nothing.
VerifyFailed ==
    \E captured \in BagToSet(verifyCalls) :
        /\ verifyCalls' = verifyCalls (-) SetToBag({captured})
        /\ probe' = IF probe = "on" THEN "seen" ELSE probe
        /\ UNCHANGED <<scratch, signals, baseline, readiness, captures, poseCalls,
                       objectCalls, captureWrites, rejected, warningMessage,
                       headMovementStatus, mounted, referenceNosePosition,
                       interval>>

\* The detector call of a detectObjects resolves (lines 299-309).
ObjectsResolved(labels) ==
    /\ objectCalls > 0
    /\ objectCalls' = objectCalls - 1
    /\ detectedNotAllowedObjects' =
         IF mounted THEN FilterNotAllowed(labels) ELSE detectedNotAllowedObjects
    /\ UNCHANGED <<scratch, faceDetected, multiplePeopleDetected, horizontalMovement,
                   verticalMovement, unauthorizedPerson, baseline, readiness,
                   captures, poseCalls, verifyCalls, history, warningMessage,
                   headMovementStatus, mounted, referenceNosePosition>>
    /\ RefreshInterval(TRUE)

ObjectsDone ==
    \E labels \in ObjectResults :
        ObjectsResolved(labels)

\* --------------------------------------------------------------- specification
Next ==
    \/ LoadFaceAPI
    \/ InitPoseLandmarker
    \/ InitObjectDetector
    \/ VideoLoaded
    \/ CaptureRequest
    \/ CapturePoseDone
    \/ CaptureSettled
    \/ CaptureSucceeded
    \/ CaptureNoFace
    \/ Tick
    \/ TickPoseDone
    \/ VerifyDone
    \/ VerifyFailed
    \/ ObjectsDone

Spec == Init /\ [][Next]_vars

\* ------------------------------------------- a frame that stays crowded
\* The machine when every pose call started by a Monitoring tick returns two
\* poses or more, and the capture command is given only while no earlier
\* request is pending.
TickPoseDoneCrowded ==
    \E call \in BagToSet(poseCalls), landmarks \in PoseResults :
        /\ call.mon => Len(landmarks) >= 2
        /\ TickPoseResolved(call, landmarks)

CaptureRequestAlone ==
    /\ captures = EmptyBag
    /\ CaptureRequest

NextCrowded ==
    \/ LoadFaceAPI
    \/ InitPoseLandmarker
    \/ InitObjectDetector
    \/ VideoLoaded
    \/ CaptureRequestAlone
    \/ CapturePoseDone
    \/ CaptureSettled
    \/ CaptureSucceeded
    \/ CaptureNoFace
    \/ Tick
    \/ TickPoseDoneCrowded
    \/ VerifyDone
    \/ VerifyFailed
    \/ ObjectsDone

\* Some awaited call or timer of those pending resolves.
Resolved ==
    \/ TickPoseDoneCrowded
    \/ VerifyDone
    \/ VerifyFailed
    \/ ObjectsDone
    \/ CapturePoseDone
    \/ CaptureSettled
    \/ CaptureSucceeded
    \/ CaptureNoFace

\* The interval timer keeps firing, and what is pending does not stay pending
\* for ever.
Fairness == WF_vars(Tick) /\ WF_vars(Resolved)

CrowdedSpec == Init /\ [][NextCrowded]_vars /\ Fairness

\* ------------------------------------------------------ the interval's timer
\* In Spec a tick may fire at any moment.  Here the 300 ms period is explicit:
\* the period of the current interval elapses, and only then does its callback
\* run; an interval that is cleared and set again (RefreshInterval) starts its
\* period anew, also when the old one had already elapsed.
Elapse ==
    /\ mounted
    /\ timer = "armed"
    /\ timer' = "due"
    /\ UNCHANGED <<scratch, signals, baseline, readiness, inflight, history,
                   warningMessage, headMovementStatus, mounted,
                   referenceNosePosition, intervalFace>>

TimedTick ==
    /\ timer = "due"
    /\ Tick

NextTimed ==
    \/ LoadFaceAPI
    \/ InitPoseLandmarker
    \/ InitObjectDetector
    \/ VideoLoaded
    \/ CaptureRequestAlone
    \/ CapturePoseDone
    \/ CaptureSettled
    \/ CaptureSucceeded
    \/ CaptureNoFace
    \/ Elapse
    \/ TimedTick
    \/ TickPoseDone
    \/ VerifyDone
    \/ VerifyFailed
    \/ ObjectsDone

\* Some awaited call or timer of those pending resolves.
Completes ==
    \/ TickPoseDone
    \/ VerifyDone
    \/ VerifyFailed
    \/ ObjectsDone
    \/ CapturePoseDone
    \/ CaptureSettled
    \/ CaptureSucceeded
    \/ CaptureNoFace

\* Time passes, a due callback that is not cleared runs, and what is pending
\* does not stay pending for ever.
TimedFairness ==
    /\ WF_vars(Elapse)
    /\ WF_vars(TimedTick)
    /\ WF_vars(Completes)

TimedSpec == Init /\ [][NextTimed]_vars /\ TimedFairness

\* ------------------------------------------------- sessions that end and begin
\* The page is loaded again after a session has ended: the component is
\* constructed afresh (lines 10-23), the calls of the old page are gone with
\* it, and localStorage is what the earlier session left.
StartSession ==
    /\ ~mounted
    /\ mounted' = TRUE
    /\ capturedFace' = Null
    /\ isFaceCaptured' = FALSE
    /\ faceCaptured' = FALSE
    /\ warningMessage' = MsgNone
    /\ headMovementStatus' = ""
    /\ poseLandmarker' = FALSE
    /\ objectDetector' = FALSE
    /\ faceDetected' = FALSE
    /\ multiplePeopleDetected' = FALSE
    /\ horizontalMovement' = 0
    /\ verticalMovement' = 0
    /\ detectedNotAllowedObjects' = <<>>
    /\ unauthorizedPerson' = FALSE
    /\ faceApiLoaded' = FALSE
    /\ videoReady' = FALSE
    /\ intervalFace' = Null
    /\ timer' = "armed"
    /\ captures' = EmptyBag
    /\ poseCalls' = EmptyBag
    /\ verifyCalls' = EmptyBag
    /\ objectCalls' = 0
    /\ captureWrites' = 0
    /\ rejected' = FALSE
    /\ probe' = "off"
    /\ UNCHANGED <<scratch, referenceNosePosition, faceLandmarks>>

\* The first session of a browser profile: localStorage is empty.
InitSession ==
    /\ Init
    /\ referenceNosePosition = Null

NextSession ==
    \/ LoadFaceAPI
    \/ InitPoseLandmarker
    \/ InitObjectDetector
    \/ VideoLoaded
    \/ CaptureRequestAlone
    \/ CapturePoseDone
    \/ CaptureSettled
    \/ CaptureSucceeded
    \/ CaptureNoFace
    \/ Tick
    \/ TickPoseDone
    \/ VerifyDone
    \/ VerifyFailed
    \/ ObjectsDone
    \/ Unmount
    \/ StartSession

SessionSpec == InitSession /\ [][NextSession]_vars

\* ------------------------------------------------ the prioritizer on its own
\* Every combination of the six fields getHighestPriorityWarning reads, under
\* different values of state it does not read.
Defaults ==
    /\ isFaceCaptured = (capturedFace # Null)
    /\ faceCaptured = isFaceCaptured
    /\ poseLandmarker = TRUE
    /\ objectDetector = TRUE
    /\ faceApiLoaded = TRUE
    /\ videoReady = TRUE
    /\ mounted = TRUE
    /\ faceLandmarks = Null
    /\ intervalFace = capturedFace
    /\ timer = "armed"
    /\ captures = EmptyBag
    /\ poseCalls = EmptyBag
    /\ verifyCalls = EmptyBag
    /\ objectCalls = 0
    /\ captureWrites = 0
    /\ rejected = FALSE
    /\ probe = "off"

InitPrio ==
    /\ multiplePeopleDetected \in BOOLEAN
    /\ unauthorizedPerson \in BOOLEAN
    /\ faceDetected \in BOOLEAN
    /\ detectedNotAllowedObjects \in {<<>>, <<"cell phone">>, <<"book", "laptop">>}
    /\ horizontalMovement \in {0, 2, 3}
    /\ verticalMovement \in {0, 2, 3}
    /\ capturedFace \in {Null, <<0>>}
    /\ warningMessage \in {MsgNone, MsgHeadMovement}
    /\ headMovementStatus \in {"", StatusCaptured}
    /\ referenceNosePosition = Null
    /\ arg = Null
    /\ ret = Null
    /\ Defaults

\* setWarningMessage(getHighestPriorityWarning()) (line 334).
SetWarning ==
    /\ warningMessage' = getHighestPriorityWarning
    /\ UNCHANGED <<scratch, signals, baseline, readiness, inflight, history,
                   headMovementStatus, mounted, referenceNosePosition, interval>>

PrioSpec == InitPrio /\ [][SetWarning]_vars

\* ---------------------------------------------- the pose evaluation on its own
\* Nose landmarks on both sides of the tolerance, on either axis.
AllNoses ==
    {<<50, 50>>, <<57, 57>>, <<43, 50>>, <<58, 50>>, <<42, 50>>, <<50, 58>>,
     <<50, 42>>}

InitPose ==
    /\ arg \in [landmarks : SeqsUpTo(AllNoses, MaxPoses),
                stored : {Null, <<50, 50>>, <<58, 50>>}]
    /\ ret = <<>>
    /\ multiplePeopleDetected = FALSE
    /\ unauthorizedPerson = FALSE
    /\ faceDetected = FALSE
    /\ detectedNotAllowedObjects = <<>>
    /\ horizontalMovement = 0
    /\ verticalMovement = 0
    /\ capturedFace = Null
    /\ warningMessage = MsgNone
    /\ headMovementStatus = ""
    /\ referenceNosePosition = arg.stored
    /\ Defaults

\* detectPose on the landmarks of arg: its result, and its writes.
EvalPose ==
    /\ ret = <<>>
    /\ ret' = <<PoseEval(arg.landmarks, referenceNosePosition)>>
    /\ WritePose(ret'[1])
    /\ UNCHANGED <<arg, detectedNotAllowedObjects, unauthorizedPerson, baseline,
                   readiness, inflight, history, warningMessage, headMovementStatus,
                   mounted, interval>>

PoseSpec == InitPose /\ [][EvalPose]_vars

\* ------------------------------------------- the choice of the face on its own
\* Boxes at Manhattan distance 64 (to the right, and mirrored to the left), 80
\* (40 + 40, which is nearer than 64 as the crow flies), 192 and 0 pixels from
\* the centre of the 640 x 480 frame.
LeftBox == [x |-> 206, y |-> 190, width |-> 100, height |-> 100]
DiagonalBox == [x |-> 310, y |-> 230, width |-> 100, height |-> 100]
CentreBox == [x |-> 270, y |-> 190, width |-> 100, height |-> 100]

AllFaces ==
    [box : {NearBox, FarBox, LeftBox, DiagonalBox, CentreBox},
     descriptor : Descriptors]

InitFace ==
    /\ arg \in SeqsUpTo(AllFaces, MaxFaces) \ {<<>>}
    /\ ret = <<>>
    /\ multiplePeopleDetected = FALSE
    /\ unauthorizedPerson = FALSE
    /\ faceDetected = FALSE
    /\ detectedNotAllowedObjects = <<>>
    /\ horizontalMovement = 0
    /\ verticalMovement = 0
    /\ capturedFace = <<0>>
    /\ warningMessage = MsgNone
    /\ headMovementStatus = ""
    /\ referenceNosePosition = Null
    /\ Defaults

\* Lines 184-193 on the detections of arg.
SelectFace ==
    /\ ret = <<>>
    /\ ret' = <<CenteredFace(arg)>>
    /\ UNCHANGED <<arg, signals, baseline, readiness, inflight, history,
                   warningMessage, headMovementStatus, mounted,
                   referenceNosePosition, interval>>

FaceSpec == InitFace /\ [][SelectFace]_vars

\* --------------------------------------- one identity verification on its own
\* Embeddings 0, 0.6, 0.61 and 1 away from the baseline <<0>>, or absent.
VerifiedFaces ==
    [box : {NearBox, FarBox},
     descriptor : {Null, <<0>>, <<60>>, <<61>>, <<100>>}]

\* Monitoring, with one verifyFace call awaiting detectAllFaces, which will
\* resolve with the detections of arg; the flag and the message are what
\* earlier ticks left.
InitVerify ==
    /\ arg \in SeqsUpTo(VerifiedFaces, MaxFaces) \ {<<>>}
    /\ ret = <<>>
    /\ capturedFace = <<0>>
    /\ isFaceCaptured = TRUE
    /\ faceCaptured = TRUE
    /\ faceLandmarks = <<<<320, 240>>>>
    /\ unauthorizedPerson \in BOOLEAN
    /\ faceDetected \in BOOLEAN
    /\ multiplePeopleDetected = FALSE
    /\ horizontalMovement = 0
    /\ verticalMovement = 0
    /\ detectedNotAllowedObjects = <<>>
    /\ warningMessage = getHighestPriorityWarning
    /\ headMovementStatus = StatusCaptured
    /\ poseLandmarker = TRUE
    /\ objectDetector = TRUE
    /\ faceApiLoaded = TRUE
    /\ videoReady = TRUE
    /\ mounted = TRUE
    /\ referenceNosePosition = <<50, 50>>
    /\ intervalFace = capturedFace
    /\ timer = "armed"
    /\ captures = EmptyBag
    /\ poseCalls = EmptyBag
    /\ verifyCalls = SetToBag({capturedFace})
    /\ objectCalls = 0
    /\ captureWrites = 1
    /\ rejected = FALSE
    /\ probe = "off"

\* detectAllFaces resolves with the detections of arg.
VerifyArg ==
    \E captured \in BagToSet(verifyCalls) :
        VerifyResolved(captured, arg)

VerifySpec == InitVerify /\ [][VerifyArg]_vars

\* ------------------------------------------- one Monitoring tick on its own
\* A Monitoring tick has started detectPose and verifyFace on one frame: the
\* pose call will resolve with the landmarks of arg and detectAllFaces with
\* its detections, in either order.
InitObserved ==
    /\ arg \in [landmarks : PoseResults, detections : FaceResults]
    /\ ret = <<>>
    /\ capturedFace = <<0>>
    /\ isFaceCaptured = TRUE
    /\ faceCaptured = TRUE
    /\ faceLandmarks = <<<<320, 240>>>>
    /\ unauthorizedPerson = FALSE
    /\ faceDetected \in BOOLEAN
    /\ multiplePeopleDetected = FALSE
    /\ horizontalMovement = 0
    /\ verticalMovement = 0
    /\ detectedNotAllowedObjects = <<>>
    /\ warningMessage = getHighestPriorityWarning
    /\ headMovementStatus = StatusCaptured
    /\ poseLandmarker = TRUE
    /\ objectDetector = FALSE
    /\ faceApiLoaded = TRUE
    /\ videoReady = TRUE
    /\ mounted = TRUE
    /\ referenceNosePosition = <<50, 50>>
    /\ intervalFace = capturedFace
    /\ timer = "armed"
    /\ captures = EmptyBag
    /\ poseCalls = SetToBag({[mon |-> TRUE]})
    /\ verifyCalls = SetToBag({capturedFace})
    /\ objectCalls = 0
    /\ captureWrites = 1
    /\ rejected = FALSE
    /\ probe = "on"

ObservedPoseDone ==
    \E call \in BagToSet(poseCalls) :
        TickPoseResolved(call, arg.landmarks)

ObservedVerifyDone ==
    \E captured \in BagToSet(verifyCalls) :
        VerifyResolved(captured, arg.detections)

NextObserved ==
    \/ ObservedPoseDone
    \/ ObservedVerifyDone

ObservedSpec == InitObserved /\ [][NextObserved]_vars

\* ===================================================================== claims

\* C1: the message the prioritizer returns is fixed by the six fields alone,
\* first match wins: multiple people, else unauthorized, else no face, else
\* the forbidden objects, else head movement (a drift above 0.02), else "".
C1_Table ==
    CASE multiplePeopleDetected -> MsgMultiplePeople
      [] ~multiplePeopleDetected /\ unauthorizedPerson -> MsgUnauthorized
      [] ~multiplePeopleDetected /\ ~unauthorizedPerson /\ ~faceDetected -> MsgNoFace
      [] ~multiplePeopleDetected /\ ~unauthorizedPerson /\ faceDetected
           /\ detectedNotAllowedObjects # <<>> ->
             Join(detectedNotAllowedObjects) \o " detected! Please remove it."
      [] ~multiplePeopleDetected /\ ~unauthorizedPerson /\ faceDetected
           /\ detectedNotAllowedObjects = <<>>
           /\ (horizontalMovement > 2 \/ verticalMovement > 2) -> MsgHeadMovement
      [] OTHER -> ""

C1_FirstMatchWins == [][warningMessage' = C1_Table]_vars

C1_Witness ==
    /\ warningMessage = MsgMultiplePeople
    /\ unauthorizedPerson
    /\ ~faceDetected
    /\ detectedNotAllowedObjects = <<"book", "laptop">>
    /\ horizontalMovement = 3

\* C2: setCapturedFace runs at most once in a session.
C2_WrittenAtMostOnce == captureWrites <= 1

\* C6: the centring result of a pose evaluation is true exactly when some
\* pose of the list has its nose strictly within 0.08 of the centre on both
\* axes.
C6_AnyPoseCentered ==
    ret # <<>> =>
        (ret[1].isFaceCentered <=>
            \E i \in DOMAIN arg.landmarks :
                /\ Abs(arg.landmarks[i][1] - 50) < 8
                /\ Abs(arg.landmarks[i][2] - 50) < 8)

\* C3: with faceCaptured set, a capture request returns at once: no request
\* is suspended on a pose, brightness or face-detection call, and the step
\* that takes the request leaves the baseline, the persisted landmarks, the
\* signals and every call in flight as they were.
C3_LaterRequestsDoNothing ==
    [][faceCaptured =>
        /\ BagCardinality(captures') <= BagCardinality(captures)
        /\ \A r \in BagToSet(captures') :
               r.stage = "pose" => CopiesIn(r, captures') <= CopiesIn(r, captures)
        /\ rejected' # rejected =>
               UNCHANGED <<capturedFace, isFaceCaptured, faceCaptured, faceLandmarks,
                           inflight, signals, captureWrites, headMovementStatus,
                           referenceNosePosition>>]_vars

C3_Witness ==
    /\ rejected
    /\ faceCaptured
    /\ capturedFace = <<0>>
    /\ captures = EmptyBag

\* C4: a capture request whose centring check does not report centred (the
\* pose evaluation returned not centred, or detectPose was not ready) ends
\* with the alignment message and leaves capturedFace, isFaceCaptured and
\* faceCaptured as they were; these three are only ever written for a request
\* that was centred.
C4_NotCenteredFails ==
    [][/\ \A req \in BagToSet(captures) :
             (/\ req.stage = "settle"
              /\ ~req.isCentered
              /\ CopiesIn(req, captures') < CopiesIn(req, captures))
             => /\ headMovementStatus' = StatusAlign
                /\ captures' = captures (-) SetToBag({req})
                /\ UNCHANGED <<capturedFace, isFaceCaptured, faceCaptured>>
       /\ (~faceCaptured /\ ~PoseReady /\ headMovementStatus' # headMovementStatus)
             => /\ headMovementStatus' = StatusAlign
                /\ UNCHANGED <<capturedFace, isFaceCaptured, faceCaptured, captures>>
       /\ (\/ capturedFace' # capturedFace
           \/ isFaceCaptured' # isFaceCaptured
           \/ faceCaptured' # faceCaptured)
             => \E req \in BagToSet(captures) :
                    /\ req.stage = "face"
                    /\ req.isCentered
                    /\ captures' = captures (-) SetToBag({req})]_vars

\* A request found not centred ended after another one had succeeded: the
\* alignment message is the last one written, and the baseline was written
\* only by the request that succeeded.
C4_Witness ==
    /\ headMovementStatus = StatusAlign
    /\ captures = EmptyBag
    /\ isFaceCaptured
    /\ captureWrites = 1

\* C5: for a centred request, a brightness below 50 ends it with the low-light
\* message and one above 200 with the too-bright message, in both cases with
\* no face detection begun and the baseline untouched; any brightness from 50
\* to 200 inclusive goes on to face detection.
C5_LightingGate ==
    [][\A req \in BagToSet(captures), b \in Brightness :
          (req.stage = "settle" /\ req.isCentered /\ CaptureSettledWith(req, b))
          => /\ UNCHANGED <<capturedFace, isFaceCaptured, faceCaptured, verifyCalls>>
             /\ b < 50 => /\ headMovementStatus' = StatusLowLight
                          /\ captures' = captures (-) SetToBag({req})
             /\ b > 200 => /\ headMovementStatus' = StatusTooBright
                           /\ captures' = captures (-) SetToBag({req})
             /\ (b >= 50 /\ b <= 200 /\ faceApiLoaded)
                   => captures' = (captures (-) SetToBag({req}))
                                     (+) SetToBag({Request("face", TRUE, b)})]_vars

C5_Witness ==
    /\ headMovementStatus = StatusTooBright
    /\ BagIn(Request("face", TRUE, 50), captures)
    /\ BagIn(Request("face", TRUE, 200), captures)
    /\ capturedFace = Null
    /\ ~isFaceCaptured

\* C7: when a Monitoring tick has seen no pose and no face, faceDetected and
\* unauthorizedPerson are both false and the warning the signals call for is
\* the no-face warning.  (probe = "on": the latest tick was a Monitoring tick
\* started with nothing in flight, and all it has seen is empty.)
C7_EmptyFrameIsNoFace ==
    (isFaceCaptured /\ probe = "on" /\ NothingInFlight)
    => /\ faceDetected = FALSE
       /\ unauthorizedPerson = FALSE
       /\ getHighestPriorityWarning = MsgNoFace

\* C8: the warning a Monitoring tick wrote is the prioritizer's result on the
\* signals computed from that tick's own pose, face and object results.
\* (With nothing in flight before the tick and nothing after it, the signals
\* are the ones its own calls left.)
C8_MessageFromThisTick ==
    (isFaceCaptured /\ probe # "off" /\ NothingInFlight)
    => warningMessage = getHighestPriorityWarning

\* C9: in Monitoring, when every tick sees two poses or more, the warning
\* becomes the multiple-people warning and from some point on stays it.
C9_CrowdedEventuallyStays ==
    <>[](isFaceCaptured => warningMessage = MsgMultiplePeople)

C9_Witness ==
    /\ isFaceCaptured
    /\ warningMessage = MsgMultiplePeople
    /\ multiplePeopleDetected
    /\ unauthorizedPerson
    /\ detectedNotAllowedObjects # <<>>

\* C10: while no baseline is captured, no identity verification and no object
\* detection is in flight, every pose call in flight was started in
\* Calibrating, and the warning is the empty string.
C10_CalibratingPoseOnly ==
    (capturedFace = Null \/ ~isFaceCaptured)
    => /\ capturedFace = Null
       /\ ~isFaceCaptured
       /\ verifyCalls = EmptyBag
       /\ objectCalls = 0
       /\ \A call \in BagToSet(poseCalls) : ~call.mon
       /\ warningMessage = ""

C10_Witness ==
    /\ capturedFace = Null
    /\ ~isFaceCaptured
    /\ objectDetector
    /\ faceApiLoaded
    /\ multiplePeopleDetected
    /\ poseCalls # EmptyBag
    /\ warningMessage = ""

\* C11: isFaceCaptured becomes true only in the step in which a capture
\* request that was found centred, with a brightness from 50 to 200, receives
\* its face detection; and once it is true no step makes it false or makes
\* capturedFace null.
C11_MonitoringOnlyByCapture ==
    [][/\ (~isFaceCaptured /\ isFaceCaptured')
            => /\ \E req \in BagToSet(captures) :
                      /\ req.stage = "face"
                      /\ req.isCentered
                      /\ req.brightness >= 50
                      /\ req.brightness <= 200
                      /\ captures' = captures (-) SetToBag({req})
               /\ capturedFace' \in {d.descriptor : d \in CaptureDetections}
               /\ captureWrites' = captureWrites + 1
       /\ isFaceCaptured => (isFaceCaptured' /\ capturedFace' # Null)]_vars

\* Monitoring after a tick whose calls returned and a later capture request.
C11_Witness ==
    /\ isFaceCaptured
    /\ capturedFace # Null
    /\ probe = "seen"
    /\ rejected
    /\ unauthorizedPerson
    /\ NothingInFlight

\* C12: once the session is stopped no tick starts and no call is begun, and
\* a call that completes changes neither the six signals, nor the stored
\* reference head position, nor the warning message.
C12_ResultsDiscardedAfterStop ==
    [][(~mounted /\ ~mounted')
        => /\ UNCHANGED <<signals, warningMessage, referenceNosePosition>>
           /\ BagCardinality(poseCalls') <= BagCardinality(poseCalls)
           /\ BagCardinality(verifyCalls') <= BagCardinality(verifyCalls)
           /\ objectCalls' <= objectCalls]_vars

\* C13: a session begins with nothing stored under referenceNosePosition and
\* faceLandmarks.
C13_SessionStartsClean ==
    [][(~mounted /\ mounted')
        => /\ referenceNosePosition' = Null
           /\ faceLandmarks' = Null]_vars

\* C14: the face identity verification selects is one of the detections, and
\* no detection has a bounding-box centre with a smaller Manhattan distance to
\* the frame centre (320, 240); of a face 64 pixels (0.1) and a face 192
\* pixels (0.3) away it selects the nearer, in either order.  Distances are
\* doubled to stay whole numbers.
C14_Manhattan(face) ==
    Abs(2 * face.box.x + face.box.width - 640)
    + Abs(2 * face.box.y + face.box.height - 480)

C14_SelectsNearestFace ==
    ret # <<>> =>
        /\ \E i \in DOMAIN arg : arg[i] = ret[1]
        /\ \A i \in DOMAIN arg : C14_Manhattan(ret[1]) <= C14_Manhattan(arg[i])
        /\ {arg[i].box : i \in DOMAIN arg} = {NearBox, FarBox} => ret[1].box = NearBox

\* The far face listed first, the near one second: the near one is selected.
C14_Witness ==
    /\ ret # <<>>
    /\ Len(arg) = 2
    /\ arg[1].box = FarBox
    /\ arg[2].box = NearBox
    /\ ret[1] = arg[2]

\* C15: when identity verification has completed on a selected face that has
\* a descriptor, unauthorizedPerson is true if the embedding distance to the
\* baseline is above 0.6 and false otherwise, whatever it was before: 0.6 is
\* not flagged, 0.61 is.  (Embeddings have one component, so the distance is
\* the absolute difference.)
C15_StrictThreshold ==
    (verifyCalls = EmptyBag /\ CenteredFace(arg).descriptor # Null)
    => LET distance == Abs(capturedFace[1] - CenteredFace(arg).descriptor[1])
       IN  /\ distance > 60 => unauthorizedPerson
           /\ distance <= 60 => ~unauthorizedPerson
           /\ CenteredFace(arg).descriptor = <<60>> => ~unauthorizedPerson
           /\ CenteredFace(arg).descriptor = <<61>> => unauthorizedPerson

\* The message of the last tick reported the flag raised; the verification,
\* at distance 0.6, has cleared it.
C15_Witness ==
    /\ verifyCalls = EmptyBag
    /\ CenteredFace(arg).descriptor = <<60>>
    /\ warningMessage = MsgUnauthorized
    /\ ~unauthorizedPerson
    /\ faceDetected

\* C16: after an object-detection pass detectedNotAllowedObjects is, in the
\* order of the detections, the lower-cased top label of every detection
\* whose top label is, letter case aside, one of cell phone, tablet, book,
\* remote, backpack, mouse, tv, keyboard, laptop; detections with another
\* label or with no category contribute nothing, and what an earlier pass
\* left is replaced.
C16_LowerCased(label) ==
    IF label = "Cell Phone" THEN "cell phone" ELSE label

C16_Disallowed(label) ==
    C16_LowerCased(label) \in
        {"cell phone", "tablet", "book", "remote", "backpack", "mouse", "tv",
         "keyboard", "laptop"}

C16_ForbiddenObjects ==
    [][objectCalls' # objectCalls =>
        \A labels \in ObjectResults :
          ObjectsResolved(labels)
          => LET kept == SelectSeq(labels, C16_Disallowed)
             IN  /\ detectedNotAllowedObjects' =
                       [i \in DOMAIN kept |-> C16_LowerCased(kept[i])]
                 /\ (\A i \in DOMAIN labels : labels[i] \in {"person", NoCategory})
                       => detectedNotAllowedObjects' = <<>>]_vars

\* A tick's message named the phone found by one pass ("Cell Phone" from the
\* detector); a later pass without a disallowed object has emptied the list.
C16_Witness ==
    /\ warningMessage = "cell phone detected! Please remove it."
    /\ detectedNotAllowedObjects = <<>>
    /\ objectCalls = 0

\* C17: a tick begins only when every call an earlier tick started (pose,
\* identity verification, object detection) has resolved.
C17_TicksNeverOverlap ==
    [][Tick => /\ poseCalls = EmptyBag
               /\ verifyCalls = EmptyBag
               /\ objectCalls = 0]_vars

\* C18: at most one call is in flight on the pose model (from a tick or from
\* a capture request), at most one on the face model (detectAllFaces of a
\* verification or detectSingleFace of a capture) and at most one on the
\* object detector.
C18_InStage(stage) ==
    LET waiting == {req \in BagToSet(captures) : req.stage = stage}
    IN  BagCardinality([req \in waiting |-> CopiesIn(req, captures)])

C18_OneCallPerModel ==
    /\ BagCardinality(poseCalls) + C18_InStage("pose") <= 1
    /\ BagCardinality(verifyCalls) + C18_InStage("face") <= 1
    /\ objectCalls <= 1

\* C19: while the session runs, whatever a tick finds not ready or failing
\* and however often the interval is set again, the interval's callback
\* always runs again.
C19_TickAlwaysFiresAgain == []<><<TimedTick>>_vars

\* Once in Monitoring (which is never left) a tick always fires again.
C19_MonitoringTickFiresAgain == <>[]isFaceCaptured => []<><<TimedTick>>_vars

\* C20: a pose evaluation leaves as stored reference the last nose of the
\* list that is centred (within 0.08 of the centre on both axes); with no
\* centred nose it leaves the first nose of the list if nothing was stored,
\* and what was stored otherwise.  Only the completion of a pose call, of a
\* tick or of a capture request, changes the stored reference.
C20_Centred(nose) ==
    /\ Abs(nose[1] - 50) < 8
    /\ Abs(nose[2] - 50) < 8

C20_Reference(landmarks, stored) ==
    LET centred == {i \in DOMAIN landmarks : C20_Centred(landmarks[i])}
    IN  IF centred # {}
        THEN landmarks[CHOOSE i \in centred : \A j \in centred : j <= i]
        ELSE IF stored = Null /\ landmarks # <<>> THEN landmarks[1]
        ELSE stored

C20_ReferenceWrites ==
    [][/\ (poseCalls' # poseCalls \/ captures' # captures) =>
           \A landmarks \in PoseResults :
             (\/ \E call \in BagToSet(poseCalls) : TickPoseResolved(call, landmarks)
              \/ \E req \in BagToSet(captures) : CapturePoseResolved(req, landmarks))
             => referenceNosePosition'
                  = C20_Reference(landmarks, referenceNosePosition)
       /\ referenceNosePosition' # referenceNosePosition
             => \/ BagCardinality(poseCalls') < BagCardinality(poseCalls)
                \/ \E req \in BagToSet(captures) :
                       /\ req.stage = "pose"
                       /\ CopiesIn(req, captures') < CopiesIn(req, captures)]_vars

\* In Monitoring the centred reference is still stored after an evaluation
\* that saw the nose 0.08 off centre.
C20_Witness ==
    /\ isFaceCaptured
    /\ referenceNosePosition = <<50, 50>>
    /\ horizontalMovement = 8
    /\ faceDetected
    /\ ~multiplePeopleDetected
    /\ poseCalls = EmptyBag

\* C21: after a pose evaluation that saw exactly one pose, the two movements
\* are the absolute differences between that nose and the reference stored
\* when the evaluation ends; a nose within 0.08 of the centre on both axes
\* gives 0 and 0, so a movement above the 0.02 of the head-movement warning
\* comes only from a nose outside that tolerance.
C21_DriftFromStoredReference ==
    (ret # <<>> /\ Len(arg.landmarks) = 1)
    => LET nose == arg.landmarks[1]
           centred == Abs(nose[1] - 50) < 8 /\ Abs(nose[2] - 50) < 8
       IN  /\ referenceNosePosition # Null
           /\ horizontalMovement = Abs(nose[1] - referenceNosePosition[1])
           /\ verticalMovement = Abs(nose[2] - referenceNosePosition[2])
           /\ ret[1].horizontalMovement = horizontalMovement
           /\ ret[1].verticalMovement = verticalMovement
           /\ centred => (horizontalMovement = 0 /\ verticalMovement = 0)
           /\ (horizontalMovement > 2 \/ verticalMovement > 2) => ~centred

\* A nose 0.08 off centre, evaluated against the centred reference, which
\* stays stored: movement 0.08.
C21_Witness ==
    /\ ret # <<>>
    /\ arg.landmarks = <<<<58, 50>>>>
    /\ arg.stored = <<50, 50>>
    /\ referenceNosePosition = <<50, 50>>
    /\ horizontalMovement = 8
    /\ verticalMovement = 0

\* C22: whenever isFaceCaptured is true capturedFace is set, also in each of
\* the states the three setters of a successful capture pass through; and
\* every identity verification in flight, and the tick's closure in
\* Monitoring, holds a baseline that is set.
C22_BaselineBeforeFlag ==
    /\ isFaceCaptured => capturedFace # Null
    /\ isFaceCaptured => intervalFace # Null
    /\ \A captured \in BagToSet(verifyCalls) : captured # Null
    /\ \A req \in BagToSet(captures), detections \in CaptureDetections :
           req.stage = "face" =>
               \A i \in 1..3 :
                   LET render == CaptureRenders(detections.descriptor)[i]
                   IN  render.isFaceCaptured => render.capturedFace # Null

\* Monitoring with an identity verification in flight, while a second
\* capture request is about to receive its detection.
C22_Witness ==
    /\ isFaceCaptured
    /\ capturedFace = <<0>>
    /\ verifyCalls # EmptyBag
    /\ \E req \in BagToSet(captures) : req.stage = "face"

\* C23: once the pose evaluation and the identity verification of a tick
\* have both completed, faceDetected has the value it has when the pose
\* evaluation completes last (at least one pose was seen), in whichever order
\* the two completed.
C23_SameInEitherOrder ==
    (poseCalls = EmptyBag /\ verifyCalls = EmptyBag)
    => faceDetected = (Len(arg.landmarks) > 0)

====
